---------------------------- MODULE Spec2Model ----------------------------
(***************************************************************************)
(* Model of src/device.py: the Device class, a host-side driver for the    *)
(* Pololu Maestro servo controller (compact protocol) over two serial      *)
(* ports: con (command port) and ser (TTL port).                           *)
(*                                                                         *)
(* The state is one Device object and the two serial ports it talks to.    *)
(* Every public method is one action; set_target/set_targets with          *)
(* wait=True enter the polling loop of wait_until_at_target, one action    *)
(* per loop iteration, because each iteration consumes one answer of the    *)
(* device.  What the device answers to a read is an input of the action.   *)
(*                                                                         *)
(* The code is Python 2: chr(d) raises ValueError unless 0 <= d <= 255,    *)
(* indexing past the end of a list or string raises IndexError, and an     *)
(* uncaught exception ends the call where it is raised.                    *)
(***************************************************************************)
EXTENDS Integers, Sequences, FiniteSets

VARIABLES
    con,            \* self.con: "None", "open", or "deleted" (del self.con)
    ser,            \* self.ser: "None", "open", or "deleted" (del self.ser)
    isInitialized,  \* self.isInitialized
    conLog,         \* every transport event on the command port, in order
    io,             \* the transport events on ser of the current (last) call
    call,           \* the current (last) public call and its arguments
    result,         \* what the current (last) call returned or raised
    pc,             \* "new" | "opening" | "idle" | "wait" | "dead" | "finalized"
    polls,          \* iterations of wait_until_at_target in the current call
    homes           \* history: the go_home calls made in a row up to now,
                    \* [n |-> how many, io |-> their events on ser]

vars == <<con, ser, isInitialized, conLog, io, call, result, pc, polls,
          homes>>

---------------------------------------------------------------------------
(* Bounds of the model and the inputs the actions draw from.               *)

\* longest list argument (servos, speeds, values) a call is given
MaxBatch == 2
\* most loop iterations of wait_until_at_target that answer "moving"
MaxPolls == 2
\* most go_home calls made in a row
MaxHomes == 2

\* channel numbers the calls use
Channels == {1, 2}
\* targets and speeds: 0, the manual's example 140, the first value whose
\* quotient by 32 has bit 7 set, and the largest 14-bit value
Values == {0, 140, 4096, 16383}
\* targets of the list argument of set_targets
BatchTargets == {140, 4000}
\* speeds of the list argument of set_speeds
BatchSpeeds == {140, 16383}
\* accelerations, 0..255
Accelerations == {0, 37, 255}
\* bytes the device answers with
RespBytes == {7, 10}
\* bytes the device answers to Get Moving State with
MovingBytes == {0, 1}

SeqsUpTo(S, n) == UNION {[1..k -> S] : k \in 0..n}

\* lists without repetition
IsInjective(s) == \A i, j \in 1..Len(s) : s[i] = s[j] => i = j

\* what ser.read(n) may return: up to n bytes, none on timeout
Responses(n) == SeqsUpTo(RespBytes, n)

---------------------------------------------------------------------------
(* Transport events and call outcomes.                                     *)

\* serial.write(chr(b))
W(b) == <<"w", b>>
\* serial.flush()
F == <<"f">>
\* serial.read(n) that returned data
R(n, data) == <<"r", n, data>>

\* serial.close()
Close == <<"c">>

IsWrite(ev) == ev[1] = "w"
IsFlush(ev) == ev[1] = "f"
IsRead(ev) == ev[1] = "r"

\* the bytes written, in order, among the events evs
RECURSIVE BytesOf(_)
BytesOf(evs) ==
    IF evs = <<>> THEN <<>>
    ELSE IF IsWrite(Head(evs)) THEN <<Head(evs)[2]>> \o BytesOf(Tail(evs))
    ELSE BytesOf(Tail(evs))

Count(evs, kind) == Cardinality({i \in 1..Len(evs) : evs[i][1] = kind})

\* results: a Python value returned, or an exception raised
None == [kind |-> "None", val |-> <<>>]
IntVal(n) == [kind |-> "Int", val |-> <<n>>]
ListVal(l) == [kind |-> "List", val |-> l]
Raise(e) == [kind |-> e, val |-> <<>>]
Pending == [kind |-> "Pending", val |-> <<>>]
NoCall == [kind |-> "NoCall", val |-> <<>>]

Exceptions == {"ValueError", "IndexError", "AttributeError"}
Raised(r) == r.kind \in Exceptions

\* the Device object as the methods see it
Self == [con |-> con, ser |-> ser, isInitialized |-> isInitialized]

\* the outcome of a method: its events on ser, its result
Out(evs, r) == [io |-> evs, res |-> r]

---------------------------------------------------------------------------
(* Device.write and the numeric helpers.                                   *)

\* Python 2 chr(d) is defined for 0..255 and raises ValueError otherwise
ChrOk(d) == d \in 0..255

\* pyserial's Serial.writable() answers True
Writable(self) == TRUE

\* a scalar argument of write(*data); a list argument is its own sequence
Arg(d) == <<d>>

\* the nested "for d in data / for li in d" order of write
RECURSIVE Flatten(_)
Flatten(data) ==
    IF data = <<>> THEN <<>> ELSE Head(data) \o Flatten(Tail(data))

\* index of the first element chr() rejects, Len+1 if there is none
RECURSIVE FirstBad(_, _)
FirstBad(bytes, i) ==
    IF i > Len(bytes) THEN i
    ELSE IF ChrOk(bytes[i]) THEN FirstBad(bytes, i + 1)
    ELSE i

\* Device.write(*data): the events on ser and whether chr() raised
write(self, data) ==
    IF ~self.isInitialized THEN Out(<<>>, None)
    ELSE IF ~Writable(self) THEN Out(<<>>, None)
    ELSE LET bytes == Flatten(data)
             k == FirstBad(bytes, 1)
             sent == [i \in 1..(k - 1) |-> W(bytes[i])]
         IN IF k <= Len(bytes) THEN Out(sent, Raise("ValueError"))
            ELSE Out(sent \o <<F>>, None)

\* highbits, lowbits = divmod(value, 32); the arguments lowbits << 2, highbits
lowbyte(value) == (value % 32) * 4
highbyte(value) == value \div 32

\* self.ser.read(n) answering data; self.ser is None when the port never opened
read(self, n, data) ==
    IF self.ser = "None" THEN Out(<<>>, Raise("AttributeError"))
    ELSE Out(<<R(n, data)>>, None)

\* the two bytes taken high byte first
be16(data) == data[2] + data[1] * 256

\* ord(data[0]) + (ord(data[1]) << 8)
le16(data) == data[1] + data[2] * 256

---------------------------------------------------------------------------
(* The methods.  Each takes the object and its arguments (and, for a       *)
(* query, what the device answers) and gives the events and the result.    *)

\* "if not self.isInitialized: log(...); return" in front of every method
NotInitialized(self) == ~self.isInitialized

\* statement sequencing: an exception in the first part ends the method
Seq2(o1, o2) == IF Raised(o1.res) THEN o1 ELSE Out(o1.io \o o2.io, o2.res)

\* go_home sending the opcode of Get Errors
go_home_wrong_opcode(self) ==
    IF NotInitialized(self) THEN Out(<<>>, None)
    ELSE write(self, <<Arg(161)>>)

go_home(self) ==
    IF NotInitialized(self) THEN Out(<<>>, None)
    ELSE write(self, <<Arg(162)>>)

\* "if wait: self.wait_until_at_target()" after a command c: the call goes
\* on to the polling loop, its result pending
then_wait(c, wait) ==
    IF Raised(c.res) THEN c
    ELSE IF wait THEN Out(c.io, Pending)
    ELSE c

set_target(self, servo, value, wait) ==
    IF NotInitialized(self) THEN Out(<<>>, None)
    ELSE then_wait(write(self, <<Arg(132), Arg(servo), Arg(lowbyte(value)),
                                 Arg(highbyte(value))>>), wait)

\* result = [lowbits << 2, highbits, ...] of values[0 .. num_targets-1],
\* in the order of values
RECURSIVE targets_result(_, _, _)
targets_result(num_targets, values, k) ==
    IF k > num_targets THEN <<>>
    ELSE <<lowbyte(values[k]), highbyte(values[k])>>
            \o targets_result(num_targets, values, k + 1)

Min(s) == CHOOSE m \in {s[i] : i \in 1..Len(s)} :
              \A i \in 1..Len(s) : m <= s[i]

\* start_channel is [list |-> BOOLEAN, v |-> a sequence]: a list of
\* channels, or one channel number as a sequence of one
set_targets(self, num_targets, start_channel, values, wait) ==
    IF NotInitialized(self) THEN Out(<<>>, None)
    ELSE IF num_targets > Len(values) THEN Out(<<>>, Raise("IndexError"))
    ELSE IF start_channel.list /\ start_channel.v = <<>>
         THEN Out(<<>>, Raise("ValueError"))
    ELSE LET res == targets_result(num_targets, values, 1)
             start == IF start_channel.list THEN Min(start_channel.v)
                      ELSE start_channel.v[1]
         IN then_wait(write(self, <<Arg(159), Arg(num_targets), Arg(start),
                                    res>>), wait)

set_speed(self, servo, speed) ==
    IF NotInitialized(self) THEN Out(<<>>, None)
    ELSE write(self, <<Arg(135), Arg(servo), Arg(lowbyte(speed)),
                       Arg(highbyte(speed))>>)

\* the loop of set_speeds from the servo at position i on; speeds is
\* [type |-> "list" | "int" | "other", v |-> a sequence]
RECURSIVE set_speeds_loop(_, _, _, _)
set_speeds_loop(self, servos, speeds, i) ==
    IF i > Len(servos) THEN Out(<<>>, None)
    ELSE IF speeds.type = "list" THEN
        IF i > Len(speeds.v) THEN Out(<<>>, Raise("IndexError"))
        ELSE Seq2(write(self, <<Arg(135), Arg(servos[i]),
                                Arg(lowbyte(speeds.v[i])),
                                Arg(highbyte(speeds.v[i]))>>),
                  set_speeds_loop(self, servos, speeds, i + 1))
    ELSE IF speeds.type = "int" THEN
        Seq2(write(self, <<Arg(135), Arg(servos[i]),
                           Arg(lowbyte(speeds.v[1])),
                           Arg(highbyte(speeds.v[1]))>>),
             set_speeds_loop(self, servos, speeds, i + 1))
    ELSE Out(<<>>, None)

set_speeds(self, servos, speeds) ==
    IF NotInitialized(self) THEN Out(<<>>, None)
    ELSE set_speeds_loop(self, servos, speeds, 1)

set_acceleration(self, servo, acceleration) ==
    IF NotInitialized(self) THEN Out(<<>>, None)
    ELSE write(self, <<Arg(137), Arg(servo), Arg(lowbyte(acceleration)),
                       Arg(highbyte(acceleration))>>)

\* "if data: return f(data) else: return None" of the two-byte queries:
\* data[1] of a one-byte answer raises IndexError
decode2(data, scale) ==
    IF Len(data) = 0 THEN Out(<<>>, None)
    ELSE IF Len(data) < 2 THEN Out(<<>>, Raise("IndexError"))
    ELSE Out(<<>>, IntVal(le16(data) \div scale))

\* get_position without its isInitialized check
get_position_unguarded(self, servo, data) ==
    Seq2(write(self, <<Arg(144), Arg(servo)>>),
         Seq2(read(self, 2, data), decode2(data, 4)))

get_position(self, servo, data) ==
    IF NotInitialized(self) THEN Out(<<>>, None)
    ELSE Seq2(write(self, <<Arg(144), Arg(servo)>>),
         Seq2(read(self, 2, data), decode2(data, 4)))

\* the loop of get_positions from the servo at position i on, with the
\* list built so far; datas[i] is the answer to the i-th read
RECURSIVE get_positions_loop(_, _, _, _, _)
get_positions_loop(self, servos, datas, i, acc) ==
    IF i > Len(servos) THEN Out(<<>>, ListVal(acc))
    ELSE LET q == Seq2(write(self, <<Arg(144), Arg(servos[i])>>),
                  Seq2(read(self, 2, datas[i]), decode2(datas[i], 4)))
         IN IF Raised(q.res) THEN q
            ELSE Seq2(q, get_positions_loop(self, servos, datas, i + 1,
                          Append(acc, q.res.val)))

get_positions(self, servos, datas) ==
    IF NotInitialized(self) THEN Out(<<>>, None)
    ELSE get_positions_loop(self, servos, datas, 1, <<>>)

get_moving_state(self, data) ==
    IF NotInitialized(self) THEN Out(<<>>, None)
    ELSE Seq2(write(self, <<Arg(147)>>),
         Seq2(read(self, 1, data),
              IF Len(data) = 0 THEN Out(<<>>, None)
              ELSE Out(<<>>, IntVal(data[1]))))

get_errors(self, data) ==
    IF NotInitialized(self) THEN Out(<<>>, None)
    ELSE Seq2(write(self, <<Arg(161)>>),
         Seq2(read(self, 2, data), decode2(data, 1)))

\* a loop condition that takes only None for false
Truthy_not_none(r) == r.kind = "Int"

\* the condition of "while (self.get_moving_state())": None and 0 are false
Truthy(r) == r.kind = "Int" /\ r.val[1] # 0

---------------------------------------------------------------------------
(* The state machine.                                                      *)

\* the lists of channels a call passes
ChannelLists == {s \in SeqsUpTo(Channels, MaxBatch) : IsInjective(s)}
\* the start_channel arguments of set_targets: a channel or a list
StartChannels ==
    {[list |-> FALSE, v |-> <<c>>] : c \in Channels}
        \cup {[list |-> TRUE, v |-> s] : s \in ChannelLists}
\* the speeds arguments of set_speeds: a list, an int, something else
SpeedArgs ==
    {[type |-> "list", v |-> s] : s \in SeqsUpTo(BatchSpeeds, MaxBatch)}
        \cup {[type |-> "int", v |-> <<v>>] : v \in BatchSpeeds}
        \cup {[type |-> "other", v |-> <<>>]}

\* lines 57-59: the fields before the ports are opened
Init ==
    /\ con = "None"
    /\ ser = "None"
    /\ isInitialized = FALSE
    /\ conLog = <<>>
    /\ io = <<>>
    /\ call = [op |-> "none"]
    /\ result = NoCall
    /\ pc = "new"
    /\ polls = 0
    /\ homes = [n |-> 0, io |-> <<>>]

\* line 96 with "or" for "and"
either_open(c, p) == c # "None" \/ p # "None"

\* line 96: self.con != None and self.ser != None
both_open(c, p) == c # "None" /\ p # "None"

\* Device.__init__, lines 63-82: conOk says whether serial.Serial(...)
\* opened the command port; an open port is sent the byte 0xAA
OpenCon(conOk) ==
    /\ pc = "new"
    /\ con' = IF conOk THEN "open" ELSE "None"
    /\ conLog' = IF conOk THEN <<W(170), F>> ELSE <<>>
    /\ pc' = "opening"
    /\ call' = [op |-> "__init__", conOk |-> conOk]
    /\ UNCHANGED <<ser, isInitialized, io, result, polls, homes>>

\* Device.__init__, lines 86-100, after the command port was tried (conOk
\* is its outcome): serOk says whether serial.Serial(...) opened the TTL
\* port; data is the answer to the read of the first get_errors
Construct(conOk, serOk, data) ==
    /\ pc = "opening"
    /\ conOk = (con # "None")
    /\ ser' = IF serOk THEN "open" ELSE "None"
    /\ isInitialized' = both_open(con, ser')
    /\ LET self1 == [con |-> con, ser |-> ser',
                     isInitialized |-> isInitialized']
           o == IF isInitialized' THEN get_errors(self1, data)
                ELSE Out(<<>>, None)
       IN /\ io' = o.io
          /\ result' = IF Raised(o.res) THEN o.res ELSE NoCall
          /\ pc' = IF Raised(o.res) THEN "dead" ELSE "idle"
    /\ call' = [op |-> "__init__", conOk |-> conOk, serOk |-> serOk,
                data |-> data]
    /\ polls' = 0
    /\ UNCHANGED <<con, conLog, homes>>

\* the history of go_home calls after the call c with outcome o
homes_after(c, o) ==
    IF c.op = "go_home" THEN [n |-> homes.n + 1, io |-> homes.io \o o.io]
    ELSE [n |-> 0, io |-> <<>>]

\* a public call c with outcome o whose events go to the command port
Do_on_con(c, o) ==
    /\ pc = "idle"
    /\ call' = c
    /\ io' = <<>>
    /\ conLog' = conLog \o o.io
    /\ result' = o.res
    /\ pc' = IF o.res = Pending THEN "wait" ELSE "idle"
    /\ polls' = 0
    /\ homes' = homes_after(c, o)
    /\ UNCHANGED <<con, ser, isInitialized>>

\* a public call c with outcome o, made when no call is in progress
Do(c, o) ==
    /\ pc = "idle"
    /\ call' = c
    /\ io' = o.io
    /\ result' = o.res
    /\ pc' = IF o.res = Pending THEN "wait" ELSE "idle"
    /\ polls' = 0
    /\ homes' = homes_after(c, o)
    /\ UNCHANGED <<con, ser, isInitialized, conLog>>

\* the model makes MaxHomes go_home calls in a row
GoHome == homes.n < MaxHomes /\ Do([op |-> "go_home"], go_home(Self))

SetTarget(servo, value, wait) ==
    Do([op |-> "set_target", servo |-> servo, value |-> value, wait |-> wait],
       set_target(Self, servo, value, wait))

SetTargets(num_targets, start_channel, values, wait) ==
    Do([op |-> "set_targets", num_targets |-> num_targets,
        start_channel |-> start_channel, values |-> values, wait |-> wait],
       set_targets(Self, num_targets, start_channel, values, wait))

SetSpeed(servo, speed) ==
    Do([op |-> "set_speed", servo |-> servo, value |-> speed],
       set_speed(Self, servo, speed))

SetSpeeds(servos, speeds) ==
    Do([op |-> "set_speeds", servos |-> servos, speeds |-> speeds],
       set_speeds(Self, servos, speeds))

SetAcceleration(servo, acceleration) ==
    Do([op |-> "set_acceleration", servo |-> servo, value |-> acceleration],
       set_acceleration(Self, servo, acceleration))

GetPosition(servo, data) ==
    Do([op |-> "get_position", servo |-> servo, data |-> data],
       get_position(Self, servo, data))

GetPositions(servos, datas) ==
    Do([op |-> "get_positions", servos |-> servos, datas |-> datas],
       get_positions(Self, servos, datas))

GetMovingState(data) ==
    Do([op |-> "get_moving_state", data |-> data],
       get_moving_state(Self, data))

GetErrors(data) ==
    Do([op |-> "get_errors", data |-> data], get_errors(Self, data))

\* one iteration of "while (self.get_moving_state()): time.sleep(0.1)";
\* data is the device's answer.  The model lets the device answer "moving"
\* MaxPolls times in one call.
Poll(data) ==
    /\ pc = "wait"
    /\ LET o == get_moving_state(Self, data)
       IN /\ io' = io \o o.io
          /\ IF Raised(o.res)
             THEN result' = o.res /\ pc' = "idle" /\ polls' = polls
             ELSE IF Truthy(o.res)
             THEN polls < MaxPolls /\ result' = result /\ pc' = "wait"
                  /\ polls' = polls + 1
             ELSE result' = None /\ pc' = "idle" /\ polls' = polls
    /\ UNCHANGED <<con, ser, isInitialized, conLog, call, homes>>

\* Device.__del__ on the object self: the events on ser and on con, the
\* two attributes afterwards, the result.  Reading self.ser after
\* del(self.ser) raises AttributeError.
del_method(self) ==
    IF self.ser = "deleted" \/ self.con = "deleted"
    THEN [io |-> <<>>, conio |-> <<>>, ser |-> self.ser, con |-> self.con,
          res |-> Raise("AttributeError")]
    ELSE [io |-> IF self.ser # "None" THEN <<Close>> ELSE <<>>,
          conio |-> IF self.con # "None" THEN <<Close>> ELSE <<>>,
          ser |-> "deleted", con |-> "deleted", res |-> None]

\* the teardown routine, run on an object no call is in progress on; nth
\* tells the first invocation from the later ones
Del ==
    /\ pc \in {"idle", "dead", "finalized"}
    /\ LET o == del_method(Self)
       IN /\ io' = o.io
          /\ conLog' = conLog \o o.conio
          /\ ser' = o.ser
          /\ con' = o.con
          /\ result' = o.res
    /\ call' = [op |-> "__del__",
                nth |-> IF pc = "finalized" THEN 2 ELSE 1]
    /\ pc' = "finalized"
    /\ polls' = 0
    /\ homes' = [n |-> 0, io |-> <<>>]
    /\ UNCHANGED isInitialized

Next ==
    \/ \E conOk \in BOOLEAN : OpenCon(conOk)
    \/ \E conOk, serOk \in BOOLEAN :
         \E data \in (IF conOk /\ serOk THEN Responses(2) ELSE {<<>>}) :
            Construct(conOk, serOk, data)
    \/ GoHome
    \/ \E servo \in Channels, value \in Values, wait \in BOOLEAN :
         SetTarget(servo, value, wait)
    \/ \E num_targets \in 0..MaxBatch, start_channel \in StartChannels,
          values \in SeqsUpTo(BatchTargets, MaxBatch), wait \in BOOLEAN :
         SetTargets(num_targets, start_channel, values, wait)
    \/ \E servo \in Channels, speed \in Values : SetSpeed(servo, speed)
    \/ \E servos \in ChannelLists, speeds \in SpeedArgs :
         SetSpeeds(servos, speeds)
    \/ \E servo \in Channels, acceleration \in Accelerations :
         SetAcceleration(servo, acceleration)
    \/ \E servo \in Channels, data \in Responses(2) :
         GetPosition(servo, data)
    \/ \E servos \in ChannelLists :
         \E datas \in [1..Len(servos) -> Responses(2)] :
            GetPositions(servos, datas)
    \/ \E data \in SeqsUpTo(MovingBytes, 1) : GetMovingState(data)
    \/ \E data \in Responses(2) : GetErrors(data)
    \/ \E data \in SeqsUpTo(MovingBytes, 1) : Poll(data)
    \/ Del

Spec == Init /\ [][Next]_vars

\* what ord() of a received character can be
Byte == 0..255

\* The decoding of answers, over every two-byte answer: the first call on
\* a ready object is a get_position or a get_errors.
NextDecode ==
    \/ OpenCon(TRUE)
    \/ Construct(TRUE, TRUE, <<>>)
    \/ /\ call.op = "__init__"
       /\ \E servo \in Channels, b0, b1 \in Byte :
             GetPosition(servo, <<b0, b1>>)
    \/ /\ call.op = "__init__"
       /\ \E b0, b1 \in Byte : GetErrors(<<b0, b1>>)

SpecDecode == Init /\ [][NextDecode]_vars

---------------------------------------------------------------------------
(* Vocabulary of the properties.                                           *)

\* a constructed object whose two ports opened
Ready == pc \notin {"new", "opening"} /\ isInitialized
\* a constructed object with a port that failed to open
Failed == pc \in {"idle", "wait"} /\ ~isInitialized

PublicOps == {"go_home", "set_target", "set_targets", "set_speed",
              "set_speeds", "set_acceleration", "get_position",
              "get_positions", "get_moving_state", "get_errors"}

\* the bytes the current call wrote to ser
Wire == BytesOf(io)

\* the current call sent one value with the two-byte encoding
SingleValueCall ==
    Ready /\ call.op \in {"set_target", "set_speed", "set_acceleration"}

\* the current call is a set_targets whose arguments the loop can index
BatchCall ==
    /\ Ready
    /\ call.op = "set_targets"
    /\ call.num_targets <= Len(call.values)
    /\ ~(call.start_channel.list /\ call.start_channel.v = <<>>)

\* position in the Set Targets command of the low byte of the k-th target
PairAt(k) == 2 + 2 * k

---------------------------------------------------------------------------
(* C1: the two data bytes that set_target, set_targets, set_speed and      *)
(* set_acceleration write for a value v are v mod 128 (bits 0-6) and       *)
(* v div 128 (bits 7-13), as the protocol's 7-bit split has them.          *)
C1_SevenBitSplit ==
    /\ SingleValueCall =>
          /\ Len(Wire) >= 4
          /\ Wire[3] = call.value % 128
          /\ Wire[4] = call.value \div 128
    /\ BatchCall =>
          \A k \in 1..call.num_targets :
             /\ Len(Wire) >= PairAt(k) + 1
             /\ Wire[PairAt(k)] = call.values[k] % 128
             /\ Wire[PairAt(k) + 1] = call.values[k] \div 128

(* C2: every data byte of a numeric field (target, speed, acceleration)    *)
(* that a set_* call hands to the transport has bit 7 clear (is < 128).    *)
C2_HighBitClear ==
    /\ SingleValueCall =>
          \A i \in 3..4 : i <= Len(Wire) => Wire[i] < 128
    /\ BatchCall =>
          \A i \in 4..(3 + 2 * call.num_targets) :
             i <= Len(Wire) => Wire[i] < 128

\* index in the list s of its k-th smallest element
RankIdx(s, k) ==
    CHOOSE i \in 1..Len(s) :
        Cardinality({j \in 1..Len(s) : s[j] < s[i]}) = k - 1

(* C3: set_targets given a list of channels in any order writes            *)
(* start_channel = min(channels) and then the target pairs in ascending    *)
(* channel order, whatever the order the caller passed them in.            *)
C3_AscendingChannelOrder ==
    (/\ BatchCall
     /\ call.start_channel.list
     /\ Len(call.start_channel.v) = call.num_targets
     /\ Len(call.values) = call.num_targets) =>
        /\ Len(Wire) >= 3 + 2 * call.num_targets
        /\ Wire[3] = Min(call.start_channel.v)
        /\ \A k \in 1..call.num_targets :
              LET v == call.values[RankIdx(call.start_channel.v, k)]
              IN /\ Wire[PairAt(k)] = lowbyte(v)
                 /\ Wire[PairAt(k) + 1] = highbyte(v)

(* C4: when the session is not ready (a port failed to open), every        *)
(* public operation, set_target and set_targets with wait=True included,   *)
(* performs no write, no flush and no read, and returns None instead of    *)
(* raising, after any sequence of operations.                              *)
C4_NotReadyNoIO ==
    Failed =>
        /\ io = <<>>
        /\ pc = "idle"
        /\ call.op \in PublicOps => result = None
        /\ call.op = "__init__" => result = NoCall
        /\ conLog \in {<<>>, <<W(170), F>>}

C4_Witness ==
    /\ Failed
    /\ ser = "open"
    /\ call.op = "set_targets"
    /\ call.wait
    /\ call.num_targets = 2
    /\ result = None

(* C5: set_speeds with a list of speeds whose length differs from the      *)
(* number of channels fails with an argument-mismatch result and issues    *)
(* no write at all: no Set Speed command reaches the transport.  The       *)
(* formula states the part about the transport.                            *)
C5_SpeedsMismatchNoWrites ==
    (/\ Ready
     /\ call.op = "set_speeds"
     /\ call.speeds.type = "list"
     /\ Len(call.speeds.v) # Len(call.servos)) =>
        io = <<>>

(* C6: set_targets checks that the number of channels equals the number    *)
(* of targets; a call in which they disagree is reported as an argument    *)
(* mismatch and sends nothing.  The formula states the part about the      *)
(* transport.                                                              *)
C6_TargetsLengthValidated ==
    (/\ Ready
     /\ call.op = "set_targets"
     /\ call.start_channel.list
     /\ \/ Len(call.start_channel.v) # Len(call.values)
        \/ call.num_targets # Len(call.values)) =>
        io = <<>>

(* C7: for every v in 0..16383, decoding the two bytes written for v with  *)
(* high = byte2 and low = byte1 >> 2 gives v again: byte2 * 32 + byte1     *)
(* div 4 = v, for the bytes that reach the transport's write.              *)
C7_RoundTrip ==
    (SingleValueCall /\ call.op \in {"set_target", "set_speed"}) =>
        /\ Len(Wire) >= 4
        /\ Wire[4] * 32 + Wire[3] \div 4 = call.value

(* C8: a query whose read returns fewer bytes than the two it asked for    *)
(* is a failure: get_position and get_errors return None, get_positions    *)
(* a None slot, and none of them raises.                                   *)
C8_ShortReadIsFailure ==
    /\ (Ready /\ call.op \in {"get_position", "get_errors"}
          /\ Len(call.data) < 2) => result = None
    /\ (Ready /\ call.op = "get_positions") =>
          /\ result.kind = "List"
          /\ \A i \in 1..Len(call.servos) :
                Len(call.datas[i]) < 2 => result.val[i] = <<>>

\* the reads of the current call, in order
Reads == SelectSeq(io, IsRead)
\* a poll answer that ends the loop: 0, or nothing (the read failed)
Stopped(data) == data = <<>> \/ data = <<0>>
\* the events of the command, up to and including its flush
FrameLen == CHOOSE i \in 1..Len(io) :
                IsFlush(io[i]) /\ \A j \in 1..(i - 1) : ~IsFlush(io[j])
\* a set_target or set_targets with wait=True that reached its loop
WaitCall ==
    /\ Ready
    /\ call.op \in {"set_target", "set_targets"}
    /\ call.wait
    /\ ~Raised(result)

(* C9: set_target and set_targets with wait=True return only after a Get   *)
(* Moving State poll (0x93, flush, read of one byte), issued after the set *)
(* command, was answered with 0 or with nothing; the loop ends at the      *)
(* first such poll and goes on while the device answers nonzero.           *)
C9_WaitEndsAtFirstStoppedPoll ==
    WaitCall =>
        /\ Len(io) = FrameLen + 3 * Len(Reads)
        /\ \A i \in 1..Len(Reads) :
              /\ io[FrameLen + 3 * i - 2] = W(147)
              /\ io[FrameLen + 3 * i - 1] = F
              /\ io[FrameLen + 3 * i] = R(1, Reads[i][3])
              /\ i < Len(Reads) => ~Stopped(Reads[i][3])
        /\ pc = "idle" <=> (Len(Reads) >= 1 /\ Stopped(Reads[Len(Reads)][3]))
        /\ pc = "idle" => result = None
        /\ pc = "wait" => result = Pending

C9_Witness ==
    /\ WaitCall
    /\ pc = "idle"
    /\ Len(Reads) = 3
    /\ Reads[3][3] = <<>>

\* what get_positions is to put in the slot of an answer
Slot(data) == IF Len(data) = 2 THEN <<le16(data) \div 4>> ELSE <<>>

\* the query and read of get_positions for its i-th channel
RECURSIVE Queries(_, _, _)
Queries(servos, datas, i) ==
    IF i > Len(servos) THEN <<>>
    ELSE <<W(144), W(servos[i]), F, R(2, datas[i])>>
            \o Queries(servos, datas, i + 1)

(* C10: get_positions in a ready session issues one Get Position query     *)
(* (0x90, channel) and one 2-byte read per channel, in input order, and    *)
(* returns a list as long as channels whose slot i is the position of      *)
(* channels[i] or None; a failed read does not stop the later queries.     *)
C10_OneQueryPerChannel ==
    (Ready /\ call.op = "get_positions") =>
        /\ io = Queries(call.servos, call.datas, 1)
        /\ result.kind = "List"
        /\ Len(result.val) = Len(call.servos)
        /\ \A i \in 1..Len(call.servos) :
              result.val[i] = Slot(call.datas[i])

\* C10 for the answers that are complete or empty: no read is one byte long
C10_UnlessShortRead ==
    (/\ Ready
     /\ call.op = "get_positions"
     /\ \A i \in 1..Len(call.servos) : Len(call.datas[i]) # 1) =>
        /\ io = Queries(call.servos, call.datas, 1)
        /\ result = ListVal([i \in 1..Len(call.servos) |->
                                Slot(call.datas[i])])

(* C11: the teardown routine __del__ is idempotent: a second invocation,   *)
(* after both transport handles were released, completes without error     *)
(* and changes nothing, whether the session was ready or failed.           *)
C11_DelIdempotent ==
    (call.op = "__del__" /\ call.nth = 2) =>
        /\ result = None
        /\ io = <<>>

(* C12: for every two-byte answer (b0, b1), get_errors returns             *)
(* b0 + 256*b1 and get_position returns (b0 + 256*b1) divided by 4,        *)
(* rounding down; the answer (0x07, 0x0A) gives 2567 and position 641.     *)
C12_LittleEndianDecode ==
    (Ready /\ call.op \in {"get_errors", "get_position"}
       /\ Len(call.data) = 2) =>
        LET b0 == call.data[1]
            b1 == call.data[2]
        IN /\ call.op = "get_errors" => result = IntVal(b0 + 256 * b1)
           /\ call.op = "get_position" =>
                 result = IntVal((b0 + 256 * b1) \div 4)
           /\ (b0 = 7 /\ b1 = 10) =>
                 result = IF call.op = "get_errors" THEN IntVal(2567)
                          ELSE IntVal(641)

C12_Witness ==
    /\ Ready
    /\ call.op = "get_position"
    /\ call.data = <<7, 10>>
    /\ result = IntVal(641)

(* C13: the boundary values of the 14-bit encoder: the pair of data bytes  *)
(* written for 0 is (0x00, 0x00), the pair written for 16383 is            *)
(* (0x7C, 0x7F).                                                           *)
C13_BoundaryPairs ==
    (SingleValueCall /\ call.op \in {"set_target", "set_speed"}) =>
        /\ call.value = 0 =>
              Len(Wire) >= 4 /\ Wire[3] = 0 /\ Wire[4] = 0
        /\ call.value = 16383 =>
              Len(Wire) >= 4 /\ Wire[3] = 124 /\ Wire[4] = 127

\* the opcode of the command a single-value call sends
OpcodeOf(op) ==
    CASE op = "set_target" -> 132
      [] op = "set_speed" -> 135
      [] op = "set_acceleration" -> 137

\* the events from position i on are n writes and then a flush
FrameAt(evs, i, n) ==
    /\ Len(evs) >= i + n
    /\ \A j \in i..(i + n - 1) : IsWrite(evs[j])
    /\ evs[i + n] = F

(* C15: every command issued in a ready session with arguments in range   *)
(* (target and speed 0..16383, acceleration 0..255) reaches the data       *)
(* transport as a whole frame, the opcode and all its argument bytes       *)
(* (4 bytes for Set Target, Set Speed, Set Acceleration; 3 + 2*count for   *)
(* Set Targets), followed by a flush; no call leaves a truncated command.  *)
C15_CompleteFrames ==
    /\ SingleValueCall =>
          /\ FrameAt(io, 1, 4)
          /\ io[1] = W(OpcodeOf(call.op))
          /\ io[2] = W(call.servo)
    /\ BatchCall =>
          /\ FrameAt(io, 1, 3 + 2 * call.num_targets)
          /\ io[1] = W(159)
          /\ io[2] = W(call.num_targets)

(* C14: in a ready session, calling go_home twice produces exactly two     *)
(* writes of the single byte 0xA2, each followed by one flush, performs    *)
(* no read, and leaves the ready flag and the transport handles as they    *)
(* were.  (Stated for every number of go_home calls in a row.)             *)
C14_GoHomeTwice ==
    (Ready /\ call.op = "go_home") =>
        /\ homes.n >= 1
        /\ Len(homes.io) = 2 * homes.n
        /\ \A i \in 1..homes.n :
              homes.io[2 * i - 1] = W(162) /\ homes.io[2 * i] = F
        /\ io = <<W(162), F>>
        /\ result = None
        /\ pc = "idle"
        /\ isInitialized /\ con = "open" /\ ser = "open"
        /\ conLog = <<W(170), F>>

C14_Witness ==
    /\ Ready
    /\ call.op = "go_home"
    /\ homes.n = 2
    /\ homes.io = <<W(162), F, W(162), F>>

\* the number of bytes of the command whose opcode is at position i
Arity(evs, i) ==
    LET op == evs[i][2]
    IN IF op \in {162, 147, 161} THEN 1
       ELSE IF op = 144 THEN 2
       ELSE IF op \in {132, 135, 137} THEN 4
       ELSE IF i + 1 <= Len(evs) /\ IsWrite(evs[i + 1])
            THEN 3 + 2 * evs[i + 1][2]
       ELSE 3

\* from position i on, evs is whole commands, each followed at once by one
\* flush, with reads between the commands and no other flush
RECURSIVE FlushedFrames(_, _)
FlushedFrames(evs, i) ==
    IF i > Len(evs) THEN TRUE
    ELSE IF IsRead(evs[i]) THEN FlushedFrames(evs, i + 1)
    ELSE IF IsWrite(evs[i])
         THEN /\ FrameAt(evs, i, Arity(evs, i))
              /\ FlushedFrames(evs, i + Arity(evs, i) + 1)
    ELSE FALSE

\* as FlushedFrames, but the events may end inside the last command
RECURSIVE FlushedOrCut(_, _)
FlushedOrCut(evs, i) ==
    IF i > Len(evs) THEN TRUE
    ELSE IF IsRead(evs[i]) THEN FlushedOrCut(evs, i + 1)
    ELSE IF IsWrite(evs[i])
         THEN IF Len(evs) < i + Arity(evs, i)
              THEN \A j \in i..Len(evs) : IsWrite(evs[j])
              ELSE /\ FrameAt(evs, i, Arity(evs, i))
                   /\ FlushedOrCut(evs, i + Arity(evs, i) + 1)
    ELSE FALSE

(* C16: the write routine issues exactly one flush per command, after all  *)
(* the bytes of the command (a list argument flattened in order) were      *)
(* written; no flush comes between the bytes of one command, and a Set     *)
(* Targets command is one sequence of writes with one flush.               *)
C16_OneFlushPerCommand ==
    (Ready /\ call.op \in PublicOps) => FlushedFrames(io, 1)

\* C16 but for a command the write routine abandons: a flush never comes
\* inside a command, every whole command has its flush, and a command is
\* cut short only by the ValueError of chr()
C16_UnlessTruncated ==
    (Ready /\ call.op \in PublicOps) =>
        /\ FlushedOrCut(io, 1)
        /\ result.kind # "ValueError" => FlushedFrames(io, 1)

\* the baud-rate byte 0xAA, written and flushed
Sync == <<W(170), F>>

(* C17: after construction the ready flag is true if and only if both      *)
(* ports opened; when it is true, 0xAA was written and flushed on the      *)
(* command port before any command byte was written, and the first Get     *)
(* Errors exchange (0xA1, flush, read 2) was made before any operation of  *)
(* the caller; no operation changes the ready flag afterwards.             *)
C17_Construction ==
    [][/\ (pc = "opening" /\ pc' # "opening") =>
             /\ isInitialized' <=> (call'.conOk /\ call'.serOk)
             /\ isInitialized' <=> (con' = "open" /\ ser' = "open")
             /\ isInitialized' => io' = <<W(161), F, R(2, call'.data)>>
       /\ (\E i \in 1..Len(io') : IsWrite(io'[i])) =>
             (Len(conLog) >= 2 /\ SubSeq(conLog, 1, 2) = Sync)
       /\ call'.op \in PublicOps => pc \in {"idle", "wait"}
       /\ pc \notin {"new", "opening"} => isInitialized' = isInitialized
      ]_vars

C17_Witness ==
    /\ Ready
    /\ pc = "idle"
    /\ call.op = "set_speed"
    /\ call.value = 140
    /\ io # <<>>
    /\ conLog = Sync

(* C18: after construction no public operation writes to, flushes or       *)
(* reads from the command port: the commands and the answers go through    *)
(* ser only, and the only byte the command port ever receives is the 0xAA  *)
(* of the construction.                                                    *)
C18_CommandPortUntouched ==
    /\ pc \in {"idle", "wait"} =>
          conLog = IF con = "open" THEN Sync ELSE <<>>
    /\ BytesOf(conLog) \in {<<>>, <<170>>}
    /\ Count(conLog, "r") = 0
    /\ Count(conLog, "f") <= 1

C18_Witness ==
    /\ Ready
    /\ pc = "idle"
    /\ call.op = "get_position"
    /\ io = <<W(144), W(call.servo), F, R(2, call.data)>>
    /\ result.kind = "Int"
    /\ conLog = Sync

===========================================================================
